---- MODULE Spec2Model ----
(***************************************************************************)
(* A model of boostedblob's BoostExecutor (src/boostedblob/boost.py): the  *)
(* semaphore, the scheduling loop run(), the ordered and unordered         *)
(* boostables, their consumer iterators and the tasks they spawn.          *)
(*                                                                         *)
(* asyncio is cooperative: a coroutine runs from one suspension point to   *)
(* the next without interruption.  The variable cur names the coroutine    *)
(* that holds the event loop; while it is NoProc the loop picks any        *)
(* coroutine that is ready.  Every action is one stretch of straight-line  *)
(* code of boost.py; an action leaves cur set when the code goes on        *)
(* without suspending and resets it to NoProc at an await that suspends.   *)
(***************************************************************************)
EXTENDS Integers, Sequences, FiniteSets, TLC

(* ---- bounds of the model ---- *)
MaxC == 2       \* the executor is built with concurrency 1..MaxC
SrcLen == 3     \* length of the synchronous source of a single boostable
ChainLen == 2   \* length of the source of the first stage of a chain
PairLen == 1    \* length of each source when two boostables are iterated at once
NestLen == 2    \* length of the outermost source of a nested pipeline
NestDepth == 2  \* levels of a nested pipeline
RRCount == 2    \* boostables registered when the round robin is observed
RRLen == 2      \* length of each of their sources
EagerLen == 2   \* length of the asynchronous source behind an EagerAsyncIterator

\* MIN_TIMEOUT and MAX_TIMEOUT of run(), in milliseconds.
MinTimeout == 10

MaxTimeout == 100

VARIABLES
    concurrency,  \* BoostExecutor(concurrency)
    scn,          \* which client program runs inside the executor scope
    fail,         \* the element on which the client's func raises, and what
    sem,          \* self.semaphore._value
    boostables,   \* self.boostables, the active deque (front first)
    waiter,       \* self.waiter: "none", "pending" or "set"
    shutdown,     \* self.shutdown
    rpc,          \* where run() stands
    not_ready,    \* run()'s not_ready_boostables
    exhausted,    \* run()'s exhausted_boostables
    pbCur,        \* the boostable whose provide_boost is executing
    offered,      \* self.boostables[0] at the time of the provide_boost() call
    timeout,      \* run()'s local timeout, in milliseconds
    timed,        \* whether the pending wait_for was given a timeout
    task,         \* run()'s local task: what the last provide_boost() started, or 0
    drainIdx,     \* index into exhausted of the final for loop of run()
    drainSet,     \* the tasks the pending asyncio.wait() was given
    bst,          \* the boostables created so far, by id
    tk,           \* the asyncio tasks created by enqueue(), by id
    itr,          \* the consumer iterator of each boostable
    bpc,          \* where the body of "async with BoostExecutor" stands
    eager,        \* the EagerAsyncIterator the body built, if any
    cur,          \* the coroutine that is running
    started,      \* history: tasks in the order in which they entered func
    completed,    \* history: tasks in the order in which they completed
    boosts        \* history: the boostables run() gave a boost that started a task

execVars == <<sem, boostables, waiter, shutdown>>
runVars == <<rpc, not_ready, exhausted, pbCur, offered, timeout, timed, task, drainIdx, drainSet>>
objVars == <<bst, tk, itr>>
envVars == <<concurrency, scn, fail, bpc, eager>>
histVars == <<started, completed, boosts>>
vars == <<execVars, runVars, objVars, envVars, cur, histVars>>

NoProc == <<"none", 0>>
BodyProc == <<"body", 0>>
RunnerProc == <<"runner", 0>>
ItProc(b) == <<"it", b>>
TaskProc(t) == <<"task", t>>

Range(s) == {s[k] : k \in 1..Len(s)}

(* ---- the client programs ---- *)

\* The mapping functions the clients pass to map_ordered / map_unordered.
Func(fn, x) ==
    CASE fn = "double" -> 2 * x
      [] fn = "inc" -> x + 1
      [] OTHER -> x

\* The upstream of a boostable is a synchronous iterator (up = 0), the
\* boostable up (up > 0), or the EagerAsyncIterator (up = Eager).  Invalid
\* stands for an object of any other kind, a list for instance.
Eager == 0 - 1

Invalid == 0 - 2

\* A mutation of ValidUpstream: nothing is checked.
AnyUpstream(up) == TRUE

\* Boostable.__init__: isinstance(iterable, (Iterator, Boostable, EagerAsyncIterator))
ValidUpstream(up) == up >= 0 \/ up = Eager

NewBoostable(kind, up, len, fn, level) ==
    [kind |-> kind, up |-> up, len |-> len, pos |-> 0, buffer |-> <<>>,
     uw |-> 0, fn |-> fn, level |-> level]

\* The boostables the body registers, in order (up = 0: a synchronous
\* iterator over 1..len; up = b: the boostable b; up = Eager: an
\* EagerAsyncIterator over an asynchronous source of 1..EagerLen).
Registrations(s) ==
    CASE s = "ordered" -> <<NewBoostable("ordered", 0, SrcLen, "double", 1)>>
      [] s = "unordered" -> <<NewBoostable("unordered", 0, SrcLen, "double", 1)>>
      [] s = "chain" -> <<NewBoostable("ordered", 0, ChainLen, "double", 1),
                          NewBoostable("ordered", 1, 0, "inc", 1)>>
      [] s = "uchain" -> <<NewBoostable("unordered", 0, ChainLen, "double", 1),
                           NewBoostable("ordered", 1, 0, "inc", 1)>>
      [] s = "pair" -> <<NewBoostable("ordered", 0, PairLen, "double", 1),
                         NewBoostable("ordered", 0, PairLen, "inc", 1)>>
      [] s = "nested" -> <<NewBoostable("ordered", 0, NestLen, "nest", 1)>>
      [] s = "misuse" -> <<NewBoostable("ordered", 0, ChainLen, "double", 1),
                           NewBoostable("ordered", 1, 0, "inc", 1)>>
      [] s = "late" -> <<NewBoostable("ordered", Eager, 0, "inc", 1),
                         NewBoostable("ordered", 0, PairLen, "double", 1)>>
      [] s = "mixed" -> <<NewBoostable("ordered", 0, PairLen, "double", 1),
                          NewBoostable("ordered", Eager, 0, "inc", 1)>>
      [] s = "eager" -> <<NewBoostable("ordered", Eager, 0, "double", 1)>>
      [] s = "rr" -> [k \in 1..RRCount |-> NewBoostable("ordered", 0, RRLen, "double", 1)]

\* The boostables the body iterates (each with consume(), all at once).
Iterated(s) ==
    CASE s \in {"chain", "uchain", "misuse", "mixed"} -> {2}
      [] s = "pair" -> {1, 2}
      [] s = "late" -> {}
      [] OTHER -> {1}

NoIter ==
    [pc |-> "none", stack |-> <<>>, val |-> 0, aw |-> 0, out |-> <<>>, owner |-> 0,
     err |-> "none"]

\* The client's func raises on no element.
NoFailure == [b |-> 0, at |-> 0, kind |-> "none"]

\* func of boostable b raises on its element number at: an exception of its own
\* ("error") or a StopAsyncIteration ("stop").
Failures(s) ==
    {[b |-> 1, at |-> k, kind |-> e] : k \in 1..Registrations(s)[1].len, e \in {"error", "stop"}}

\* What func(arg) of boostable b raises, if anything.
Raises(b, arg) == IF fail.b = b /\ fail.at = arg THEN fail.kind ELSE "none"

(* ---- asyncio.Semaphore ---- *)

\* sem is the number of free permits.  A suspended acquire() goes on when a
\* permit is free; which of several waiters gets it is left open, as asyncio
\* promises no order and its versions differ in it.

\* BoostExecutor.__init__: Semaphore(concurrency - 1)
InitialPermits(c) == c - 1

\* Semaphore.locked()
Locked(s) == s = 0

\* An iterator that donates nothing.
NoDonation(s) == s

\* Boostable.__aiter__: self.semaphore.release() before the first dequeue
Donate(s) == s + 1

\* A mutation of Notified: notify_runner leaves the waiter as it is.
NoNotify(w) == w

\* BoostExecutor.notify_runner
Notified(w) == IF w = "pending" THEN "set" ELSE w

(* ---- EagerAsyncIterator ---- *)

\* The eagerify tasks are numbered in the order of their creation: task k
\* returns the k-th element of the source, task EagerLen + 1 raises
\* StopAsyncIteration.  next is the number of self.next_task, done the number
\* of eagerify tasks that are done (each creates its successor as it returns).
NoEager == [next |-> 0, done |-> 0]

\* EagerAsyncIterator(iterable): self.next_task = create_task(eagerify(iterable))
NewEager == [next |-> 1, done |-> 0]

\* task.done() of the eagerify task k
EagerDone(k) == k <= eager.done

\* The eagerify task k ended with StopAsyncIteration.
EagerEnd(k) == k = EagerLen + 1

\* "ret, self.next_task = self.next_task.result()" applied to task k
EagerTake(k) == [eager EXCEPT !.next = k + 1]

\* "val = await it.__anext__()" of the running eagerify task returns or
\* raises: the task is done, after creating its successor if it got a value.
EagerStep ==
    /\ cur = NoProc
    /\ eager.next > 0 /\ ~EagerEnd(eager.done)
    /\ eager' = [eager EXCEPT !.done = @ + 1]
    /\ UNCHANGED <<execVars, runVars, objVars, concurrency, scn, fail, bpc, cur, histVars>>

\* A mutation of NextTaskRead: __anext__ takes the result of the task it awaited.
AwaitedTaskRead(awaited) == IF awaited > 0 THEN awaited ELSE eager.next

\* The task __anext__ reads once its await is over: self.next_task, read again.
NextTaskRead(awaited) == eager.next

(* ---- construction ---- *)

InitWith(scenarios, failing) ==
    /\ concurrency \in 1..MaxC
    /\ scn \in scenarios
    /\ fail \in (IF failing THEN Failures(scn) ELSE {NoFailure})
    /\ sem = InitialPermits(concurrency)
    /\ boostables = <<>>
    /\ waiter = "none"
    /\ shutdown = FALSE
    /\ rpc = "none"
    /\ not_ready = <<>>
    /\ exhausted = <<>>
    /\ pbCur = 0
    /\ offered = 0
    /\ timeout = MinTimeout
    /\ timed = FALSE
    /\ task = 0
    /\ drainIdx = 0
    /\ drainSet = {}
    /\ bst = <<>>
    /\ tk = <<>>
    /\ itr = <<>>
    /\ bpc = "enter"
    /\ eager = NoEager
    /\ cur = NoProc
    /\ started = <<>>
    /\ completed = <<>>
    /\ boosts = <<>>

\* Every func returns a result.
InitFor(scenarios) == InitWith(scenarios, FALSE)

\* BoostExecutor(c) returns an executor: "assert concurrency > 0", and where
\* assertions are compiled out asyncio.Semaphore(c - 1) raises ValueError for
\* a negative value.
Accepts(c) == c > 0

\* The client calls BoostExecutor(c) with any c from 0; a rejected call leaves
\* no executor to enter.
InitMisuse ==
    /\ concurrency \in 0..MaxC
    /\ scn = "misuse"
    /\ fail = NoFailure
    /\ sem = IF Accepts(concurrency) THEN InitialPermits(concurrency) ELSE 0
    /\ boostables = <<>>
    /\ waiter = "none"
    /\ shutdown = FALSE
    /\ rpc = "none"
    /\ not_ready = <<>>
    /\ exhausted = <<>>
    /\ pbCur = 0
    /\ offered = 0
    /\ timeout = MinTimeout
    /\ timed = FALSE
    /\ task = 0
    /\ drainIdx = 0
    /\ drainSet = {}
    /\ bst = <<>>
    /\ tk = <<>>
    /\ itr = <<>>
    /\ bpc = IF Accepts(concurrency) THEN "enter" ELSE "rejected"
    /\ eager = NoEager
    /\ cur = NoProc
    /\ started = <<>>
    /\ completed = <<>>
    /\ boosts = <<>>

(* ---- the body of the executor scope ---- *)

\* __aenter__: create the runner task; the body then goes on without suspending.
BodyEnter ==
    /\ cur = NoProc /\ bpc = "enter"
    /\ rpc' = "start"
    /\ bpc' = "reg"
    /\ cur' = BodyProc
    /\ UNCHANGED <<execVars, not_ready, exhausted, pbCur, offered, timeout, timed, task, drainIdx, drainSet,
                   objVars, concurrency, scn, fail, eager, histVars>>

\* map_ordered / map_unordered once the boostable r is constructed:
\* self.boostables.appendleft(ret); self.notify_runner()
Register(r) ==
    /\ bst' = Append(bst, r)
    /\ itr' = Append(itr, NoIter)
    /\ boostables' = <<Len(bst) + 1>> \o boostables
    /\ waiter' = Notified(waiter)
    /\ eager' = IF r.up = Eager THEN NewEager ELSE eager

\* map_ordered / map_unordered called by the body: the boostable is
\* constructed, then registered.
BodyMap ==
    /\ cur = BodyProc /\ bpc = "reg"
    /\ Len(bst) < Len(Registrations(scn))
    /\ ValidUpstream(Registrations(scn)[Len(bst) + 1].up)
    /\ Register(Registrations(scn)[Len(bst) + 1])
    /\ UNCHANGED <<sem, shutdown, runVars, tk, concurrency, scn, fail, bpc, cur, histVars>>

\* The body awaits something else (a sleep) between two map calls.
BodyAwait ==
    /\ cur = BodyProc /\ bpc = "reg"
    /\ scn = "late"
    /\ 0 < Len(bst) /\ Len(bst) < Len(Registrations(scn))
    /\ bpc' = "pause"
    /\ cur' = NoProc
    /\ UNCHANGED <<execVars, runVars, objVars, concurrency, scn, fail, eager, histVars>>

\* The body is back from its await and calls map_ordered, wherever run() stands.
BodyLateMap ==
    /\ cur = NoProc /\ bpc = "pause"
    /\ ValidUpstream(Registrations(scn)[Len(bst) + 1].up)
    /\ Register(Registrations(scn)[Len(bst) + 1])
    /\ bpc' = "reg"
    /\ cur' = BodyProc
    /\ UNCHANGED <<sem, shutdown, runVars, tk, concurrency, scn, fail, histVars>>

\* After its iteration the body calls map_ordered on something that is no
\* valid upstream: Boostable.__init__ raises ValueError before anything is
\* registered, and the body does not handle it.
BodyMisuse ==
    /\ cur = NoProc /\ bpc = "gather"
    /\ scn = "misuse"
    /\ \A b \in Iterated(scn) : itr[b].pc = "done"
    /\ IF ValidUpstream(Invalid)
       THEN /\ Register(NewBoostable("ordered", Invalid, 0, "double", 1))
            /\ bpc' = "misused"
       ELSE /\ bpc' = "raising"
            /\ UNCHANGED <<bst, itr, boostables, waiter, eager>>
    /\ cur' = BodyProc
    /\ UNCHANGED <<sem, shutdown, runVars, tk, concurrency, scn, fail, histVars>>

\* await asyncio.gather(consume(b), ...): one consumer task per iterated boostable.
BodyGather ==
    /\ cur = BodyProc /\ bpc = "reg"
    /\ Len(bst) = Len(Registrations(scn))
    /\ itr' = [b \in 1..Len(itr) |->
                 IF b \in Iterated(scn) THEN [itr[b] EXCEPT !.pc = "start"] ELSE itr[b]]
    /\ bpc' = "gather"
    /\ cur' = NoProc
    /\ UNCHANGED <<execVars, runVars, bst, tk, concurrency, scn, fail, eager, histVars>>

\* A mutation of AwaitsRunner: the runner is awaited whatever ended the body.
AwaitsAlways(excType) == TRUE

\* __aexit__: "if exc_type: ... self.runner.cancel(); return", else the runner is
\* notified and awaited.
AwaitsRunner(excType) == ~excType

\* Task.cancel() of the runner: a task that has ended stays as it is.
Cancelled(r) == IF r \in {"done", "crashed"} THEN r ELSE "cancelled"

\* __aexit__ up to its return or its await.
Aexit(excType) ==
    /\ shutdown' = TRUE
    /\ IF AwaitsRunner(excType)
       THEN /\ waiter' = Notified(waiter)
            /\ bpc' = "await_runner"
            /\ UNCHANGED rpc
       ELSE /\ rpc' = Cancelled(rpc)
            /\ bpc' = "raised"
            /\ UNCHANGED waiter
    /\ cur' = NoProc
    /\ UNCHANGED <<sem, boostables, not_ready, exhausted, pbCur, offered, timeout, timed, task, drainIdx,
                   drainSet, objVars, concurrency, scn, fail, eager, histVars>>

\* The consumers are done and the body ends normally (an exception a consumer
\* ended with was handled inside the body): __aexit__ without exc_type.
BodyAexit ==
    /\ cur = NoProc /\ bpc = "gather"
    /\ \A b \in Iterated(scn) : itr[b].pc = "done"
    /\ Aexit(FALSE)

\* asyncio.gather raises the exception of the first consumer that ended with
\* one, and the body does not handle it.
BodyRaise ==
    /\ cur = NoProc /\ bpc = "gather"
    /\ \E b \in Iterated(scn) : itr[b].pc = "done" /\ itr[b].err # "none"
    /\ bpc' = "raising"
    /\ cur' = BodyProc
    /\ UNCHANGED <<execVars, runVars, objVars, concurrency, scn, fail, eager, histVars>>

\* The exception leaves the body: __aexit__ with exc_type.
BodyAexitRaised ==
    /\ cur = BodyProc /\ bpc = "raising"
    /\ Aexit(TRUE)

\* await self.runner returns once run() has returned, or raises what run() raised.
BodyExit ==
    /\ cur = NoProc /\ bpc = "await_runner"
    /\ rpc \in {"done", "crashed"}
    /\ bpc' = IF rpc = "done" THEN "exited" ELSE "exit_raised"
    /\ UNCHANGED <<execVars, runVars, objVars, concurrency, scn, fail, eager, cur, histVars>>

(* ---- tasks: Boostable.__init__.wrapper around func ---- *)

\* enqueue(): asyncio.create_task(self.func(arg))
NewTask(b, arg) ==
    [b |-> b, arg |-> arg, st |-> "created", cb |-> FALSE, res |-> Func(bst[b].fn, arg),
     exc |-> Raises(b, arg)]

\* enqueue(): self.buffer.append(task) / self.buffer.add(task)
BufferAdd(buf, t) == Append(buf, t)

\* started and completed are history variables: they record the order of task
\* starts and completions where a property speaks about it, that is for a
\* single boostable over a synchronous source.
Traced(s) == s \in {"ordered", "unordered"}

\* The event loop runs the first step of tasks in the order of their creation.
FirstCreated(t) == \A u \in 1..(t - 1) : tk[u].st # "created"

\* "async with semaphore" has been entered: func(arg) runs up to its first
\* suspension.  A func of a nested pipeline registers a boostable of its own
\* on the same executor and starts to iterate it.
EnterFunc(t) ==
    /\ sem' = sem - 1
    /\ started' = IF Traced(scn) THEN Append(started, t) ELSE started
    /\ IF bst[tk[t].b].fn = "nest"
       THEN LET inner == Len(bst) + 1
                lvl == bst[tk[t].b].level + 1
                fn == IF lvl < NestDepth THEN "nest" ELSE "double"
            IN /\ bst' = Append(bst, NewBoostable("ordered", 0, 1, fn, lvl))
               /\ itr' = Append(itr, [NoIter EXCEPT !.pc = "start", !.owner = t])
               /\ boostables' = <<inner>> \o boostables
               /\ waiter' = Notified(waiter)
               /\ tk' = [tk EXCEPT ![t].st = "iterating"]
               /\ cur' = ItProc(inner)
       ELSE /\ tk' = [tk EXCEPT ![t].st = "running"]
            /\ cur' = NoProc
            /\ UNCHANGED <<bst, itr, boostables, waiter>>
    /\ UNCHANGED <<shutdown, runVars, envVars, completed, boosts>>

\* First step of a task: acquire the semaphore or start waiting for it.
TaskStart(t) ==
    /\ cur = NoProc
    /\ tk[t].st = "created" /\ FirstCreated(t)
    /\ IF Locked(sem)
       THEN /\ tk' = [tk EXCEPT ![t].st = "semwait"]
            /\ UNCHANGED <<execVars, runVars, bst, itr, envVars, cur, histVars>>
       ELSE EnterFunc(t)

\* A task waiting in semaphore.acquire() is admitted.
TaskAdmit(t) ==
    /\ cur = NoProc
    /\ tk[t].st = "semwait"
    /\ ~Locked(sem)
    /\ EnterFunc(t)

\* The task is complete: its semaphore permit is back, its done callbacks are scheduled.
Finished(t) ==
    /\ sem' = sem + 1
    /\ tk' = [tk EXCEPT ![t].st = "done", ![t].cb = (bst[tk[t].b].kind = "unordered")]
    /\ completed' = IF Traced(scn) THEN Append(completed, t) ELSE completed
    /\ cur' = NoProc
    /\ UNCHANGED <<boostables, waiter, shutdown, runVars, bst, itr, envVars, started, boosts>>

\* func(arg) returns after the await it was suspended in.
TaskFinish(t) ==
    /\ cur = NoProc
    /\ tk[t].st = "running"
    /\ Finished(t)

\* func(arg) of a nested pipeline returns when its inner iteration has ended.
TaskReturn(t) ==
    /\ cur = TaskProc(t)
    /\ tk[t].st = "iterating"
    /\ Finished(t)

\* UnorderedBoostable.done_callback(task)
DoneCallback(t) ==
    /\ cur = NoProc
    /\ tk[t].cb
    /\ tk' = [tk EXCEPT ![t].cb = FALSE]
    /\ bst' = IF bst[tk[t].b].uw = -1 THEN [bst EXCEPT ![tk[t].b].uw = t] ELSE bst
    /\ UNCHANGED <<execVars, runVars, itr, envVars, cur, histVars>>

(* ---- dequeue() ---- *)

\* A dequeue that takes any done task of the buffer, not only the front one.
AnyDoneReady(b) == {t \in Range(bst[b].buffer) : tk[t].st = "done"}

\* OrderedBoostable.dequeue: the front task, if it is done.
OrderedReady(b) ==
    IF bst[b].buffer # <<>> /\ tk[Head(bst[b].buffer)].st = "done"
    THEN {Head(bst[b].buffer)}
    ELSE {}

\* A dequeue that trusts its hint without looking whether it is still buffered.
HintTrusted(b, hint) ==
    IF hint # 0 /\ tk[hint].st = "done"
    THEN {hint}
    ELSE {t \in Range(bst[b].buffer) : tk[t].st = "done"}

\* UnorderedBoostable.dequeue: the hinted task if it is in the buffer and done,
\* else the first done task the iteration over the set meets (any of them).
UnorderedReady(b, hint) ==
    IF hint # 0 /\ hint \in Range(bst[b].buffer) /\ tk[hint].st = "done"
    THEN {hint}
    ELSE {t \in Range(bst[b].buffer) : tk[t].st = "done"}

\* The tasks a dequeue() may remove and return; none: NotReady.
Dequeuable(b, hint) ==
    IF bst[b].kind = "ordered" THEN OrderedReady(b) ELSE UnorderedReady(b, hint)

\* dequeue(): self.buffer.popleft() / self.buffer.remove(task)
BufferRemove(buf, t) == SelectSeq(buf, LAMBDA x : x # t)

\* A source that reports its end one element early.
SourceEndedEarly(b) == bst[b].pos >= bst[b].len - 1

\* next(self.iterable) of a synchronous iterator raises StopIteration.
SourceEnded(b) == bst[b].pos >= bst[b].len

(* ---- BoostExecutor.run ---- *)

\* A mutation of Rotate: the deque is left as it is.
NoRotate(dq) == dq

\* Deque.rotate(-1)
Rotate(dq) == IF dq = <<>> THEN dq ELSE Tail(dq) \o <<Head(dq)>>

\* A mutation of ToGate: run() goes on to the inner loop whatever the semaphore holds.
GateOpen(s) == rpc' = "inner" /\ cur' = RunnerProc

\* "await self.semaphore.acquire(); self.semaphore.release()" reached while running:
\* it goes on at once if a permit is free and suspends otherwise.
ToGate(s) ==
    IF Locked(s)
    THEN rpc' = "gate" /\ cur' = NoProc
    ELSE rpc' = "inner" /\ cur' = RunnerProc

\* First step of the runner task.
RunnerStart ==
    /\ cur = NoProc /\ rpc = "start"
    /\ ToGate(sem)
    /\ UNCHANGED <<execVars, not_ready, exhausted, pbCur, offered, timeout, timed, task, drainIdx, drainSet,
                   objVars, envVars, histVars>>

\* The suspended acquire() gets a permit and gives it back at once.
RunnerGate ==
    /\ cur = NoProc /\ rpc = "gate"
    /\ ~Locked(sem)
    /\ rpc' = "inner"
    /\ cur' = RunnerProc
    /\ UNCHANGED <<execVars, not_ready, exhausted, pbCur, offered, timeout, timed, task, drainIdx, drainSet,
                   objVars, envVars, histVars>>

\* "while self.boostables:" and its else branch.
RunnerInner ==
    /\ cur = RunnerProc /\ rpc = "inner"
    /\ IF boostables = <<>>
       THEN /\ boostables' = not_ready
            /\ not_ready' = <<>>
            /\ rpc' = "post"
            /\ UNCHANGED <<pbCur, offered>>
       ELSE /\ pbCur' = Head(boostables)
            /\ offered' = Head(boostables)
            /\ rpc' = "pb"
            /\ UNCHANGED <<boostables, not_ready>>
    /\ UNCHANGED <<sem, waiter, shutdown, exhausted, timeout, timed, task, drainIdx, drainSet,
                   objVars, envVars, cur, histVars>>

\* boosts is a history variable, recorded where a claim reads it.
Boosted(s) == s = "rr"

\* provide_boost() returned a task: "await asyncio.sleep(0)".
BoostStarted(new) ==
    /\ task' = new
    /\ boosts' = IF Boosted(scn) THEN Append(boosts, offered) ELSE boosts
    /\ rpc' = "sleep0"
    /\ cur' = NoProc
    /\ UNCHANGED <<boostables, not_ready, exhausted, pbCur, offered>>

\* provide_boost() returned Exhausted: the front boostable moves to exhausted.
BoostExhausted ==
    /\ exhausted' = Append(exhausted, Head(boostables))
    /\ boostables' = Tail(boostables)
    /\ rpc' = "inner"
    /\ task' = 0
    /\ UNCHANGED <<not_ready, pbCur, offered, cur, bst, tk, boosts>>

\* A mutation of BoostNotReady: the front boostable is popped and not kept.
NotReadyDropped ==
    /\ boostables' = Tail(boostables)
    /\ rpc' = "inner"
    /\ task' = 0
    /\ UNCHANGED <<not_ready, exhausted, pbCur, offered, cur, bst, tk, boosts>>

\* provide_boost() returned NotReady: the front boostable moves to not_ready.
BoostNotReady ==
    /\ not_ready' = Append(not_ready, Head(boostables))
    /\ boostables' = Tail(boostables)
    /\ rpc' = "inner"
    /\ task' = 0
    /\ UNCHANGED <<exhausted, pbCur, offered, cur, bst, tk, boosts>>

\* Boostable.provide_boost of pbCur, called for the front boostable.
RunnerProvideBoost ==
    /\ cur = RunnerProc /\ rpc = "pb"
    /\ LET b == pbCur
           up == bst[b].up
           new == Len(tk) + 1
       IN IF up = 0
          THEN /\ IF SourceEnded(b)
                  THEN BoostExhausted
                  ELSE /\ tk' = Append(tk, NewTask(b, bst[b].pos + 1))
                       /\ bst' = [bst EXCEPT ![b].pos = @ + 1,
                                             ![b].buffer = BufferAdd(@, new)]
                       /\ BoostStarted(new)
               /\ UNCHANGED eager
          ELSE IF up = Eager
          THEN \* result = self.iterable.dequeue()
               IF ~EagerDone(eager.next)
               THEN BoostNotReady /\ UNCHANGED eager
               ELSE IF EagerEnd(eager.next)
               THEN BoostExhausted /\ UNCHANGED eager
               ELSE /\ eager' = EagerTake(eager.next)
                    /\ tk' = Append(tk, NewTask(b, eager.next))
                    /\ bst' = [bst EXCEPT ![b].buffer = BufferAdd(@, new)]
                    /\ BoostStarted(new)
          ELSE IF up = Invalid
          THEN \* raise AssertionError, inside run()
               /\ rpc' = "crashed"
               /\ cur' = NoProc
               /\ UNCHANGED <<boostables, not_ready, exhausted, pbCur, offered, task, bst, tk,
                              boosts, eager>>
          ELSE /\ UNCHANGED eager
               /\ IF Dequeuable(up, 0) = {}
                  THEN \* forward the boost to the underlying boostable
                       /\ pbCur' = up
                       /\ UNCHANGED <<boostables, not_ready, exhausted, offered, task, rpc, cur,
                                      bst, tk, boosts>>
                  ELSE \E t \in Dequeuable(up, 0) :
                       IF tk[t].exc # "none"
                       THEN \* task.result() raises func's exception inside run()
                            /\ bst' = [bst EXCEPT ![up].buffer = BufferRemove(@, t)]
                            /\ rpc' = "crashed"
                            /\ cur' = NoProc
                            /\ UNCHANGED <<boostables, not_ready, exhausted, pbCur, offered,
                                           task, tk, boosts>>
                       ELSE /\ tk' = Append(tk, NewTask(b, tk[t].res))
                            /\ bst' = [bst EXCEPT ![up].buffer = BufferRemove(@, t),
                                                  ![b].buffer = BufferAdd(@, new)]
                            /\ BoostStarted(new)
    /\ UNCHANGED <<sem, waiter, shutdown, timeout, timed, drainIdx, drainSet, itr,
                   concurrency, scn, fail, bpc, started, completed>>

\* Back from sleep(0): rotate, then break to the gate if no permit is free.
\* The event loop runs callbacks in the order they were scheduled, so the task
\* created before the sleep has had its first step.
RunnerResume ==
    /\ cur = NoProc /\ rpc = "sleep0"
    /\ tk[task].st # "created"
    /\ boostables' = Rotate(boostables)
    /\ ToGate(sem)
    /\ UNCHANGED <<sem, waiter, shutdown, not_ready, exhausted, pbCur, offered, timeout, timed, task, drainIdx,
                   drainSet, objVars, envVars, histVars>>

\* A mutation of Leaves: shutdown alone ends the main loop.
LeavesOnShutdown(sd, dq) == sd

\* "if self.shutdown and not self.boostables: break"
Leaves(sd, dq) == sd /\ dq = <<>>

\* After the inner loop ran the deque empty: gate, leave, or idle on a new waiter.
RunnerPost ==
    /\ cur = RunnerProc /\ rpc = "post"
    /\ IF Locked(sem)
       THEN /\ rpc' = "gate" /\ cur' = NoProc
            /\ UNCHANGED <<waiter, timed, drainIdx>>
       ELSE IF Leaves(shutdown, boostables)
            THEN /\ rpc' = "drain"
                 /\ drainIdx' = 1
                 /\ UNCHANGED <<waiter, timed, cur>>
            ELSE \* wait_for(self.waiter, timeout if self.boostables else None)
                 /\ waiter' = "pending"
                 /\ timed' = (boostables # <<>>)
                 /\ rpc' = "idle"
                 /\ cur' = NoProc
                 /\ UNCHANGED drainIdx
    /\ UNCHANGED <<sem, boostables, shutdown, not_ready, exhausted, pbCur, offered, timeout, task, drainSet,
                   objVars, envVars, histVars>>

\* "timeout = min(MAX_TIMEOUT, timeout * 2) if self.boostables else MIN_TIMEOUT"
NextTimeout(t, waiting) ==
    IF waiting THEN (IF 2 * t < MaxTimeout THEN 2 * t ELSE MaxTimeout) ELSE MinTimeout

\* wait_for(self.waiter, ...) returns because notify_runner set the waiter;
\* the timeout for the next wait is computed.
RunnerWake ==
    /\ cur = NoProc /\ rpc = "idle"
    /\ waiter = "set"
    /\ waiter' = "none"
    /\ timeout' = NextTimeout(timeout, boostables # <<>>)
    /\ timed' = FALSE
    /\ ToGate(sem)
    /\ UNCHANGED <<sem, boostables, shutdown, not_ready, exhausted, pbCur, offered, task, drainIdx,
                   drainSet, objVars, envVars, histVars>>

\* wait_for(self.waiter, timeout) times out: the wait began with boostables
\* that were not ready, and no notify_runner() came in time.  "except
\* asyncio.TimeoutError: pass" leaves the timeout as it is.
RunnerTimeout ==
    /\ cur = NoProc /\ rpc = "idle"
    /\ timed
    /\ waiter = "pending"
    /\ waiter' = "none"
    /\ timed' = FALSE
    /\ ToGate(sem)
    /\ UNCHANGED <<sem, boostables, shutdown, not_ready, exhausted, pbCur, offered, timeout, task, drainIdx,
                   drainSet, objVars, envVars, histVars>>

\* A wait() that returns without waiting.
WaitSkipped(tasks) == TRUE

\* asyncio.wait(tasks) is over when all of them are done.
WaitOver(tasks) == \A t \in tasks : tk[t].st = "done"

\* "for boostable in exhausted_boostables: await boostable.wait()", then sleep(0).
RunnerDrain ==
    /\ cur = RunnerProc /\ rpc = "drain"
    /\ IF drainIdx > Len(exhausted)
       THEN /\ rpc' = "final" /\ cur' = NoProc
            /\ UNCHANGED <<drainIdx, drainSet>>
       ELSE IF bst[exhausted[drainIdx]].buffer = <<>>
            THEN /\ drainIdx' = drainIdx + 1
                 /\ UNCHANGED <<rpc, cur, drainSet>>
            ELSE /\ drainSet' = Range(bst[exhausted[drainIdx]].buffer)
                 /\ rpc' = "drainwait" /\ cur' = NoProc
                 /\ UNCHANGED drainIdx
    /\ UNCHANGED <<execVars, not_ready, exhausted, pbCur, offered, timeout, timed, task, objVars, envVars, histVars>>

\* The awaited asyncio.wait() returns.
RunnerDrained ==
    /\ cur = NoProc /\ rpc = "drainwait"
    /\ WaitOver(drainSet)
    /\ drainIdx' = drainIdx + 1
    /\ drainSet' = {}
    /\ rpc' = "drain" /\ cur' = RunnerProc
    /\ UNCHANGED <<execVars, not_ready, exhausted, pbCur, offered, timeout, timed, task, objVars, envVars, histVars>>

\* Back from the last sleep(0): run() returns.
RunnerFinal ==
    /\ cur = NoProc /\ rpc = "final"
    /\ rpc' = "done"
    /\ UNCHANGED <<execVars, not_ready, exhausted, pbCur, offered, timeout, timed, task, drainIdx, drainSet,
                   objVars, envVars, cur, histVars>>

(* ---- Boostable.__aiter__ and blocking_dequeue ---- *)

\* The iterator of boostable i is a stack of blocking_dequeue frames <<b, hint>>,
\* innermost first: frame b called next_underlying on its underlying boostable.
TopOf(i) == itr[i].stack[1][1]

HintOf(i) == itr[i].stack[1][2]

\* Control goes back to whoever runs the iterator: the consume() task of the
\* body ends, or the func that iterated goes on.
OwnerProc(i) == IF itr[i].owner = 0 THEN NoProc ELSE TaskProc(itr[i].owner)

\* "task = self.enqueue(arg)": only UnorderedBoostable.blocking_dequeue keeps
\* the new task, as the hint of its next dequeue.
HintFor(b, t) == IF bst[b].kind = "unordered" THEN t ELSE 0

\* An exception raised in blocking_dequeue leaves every frame.  __aiter__
\* swallows a StopAsyncIteration; any other exception reaches the consumer once
\* the finally clause has its permit back.
Raised(i, e) ==
    [itr[i] EXCEPT !.pc = "stop", !.stack = <<>>, !.err = IF e = "stop" THEN @ ELSE e]

\* First step of the iterator: release a permit, then call blocking_dequeue.
IterStart(i) ==
    /\ itr[i].pc = "start"
    /\ \/ cur = ItProc(i)
       \/ cur = NoProc /\ itr[i].owner = 0
    /\ sem' = Donate(sem)
    /\ itr' = [itr EXCEPT ![i].pc = "loop", ![i].stack = <<<<i, 0>>>>]
    /\ cur' = ItProc(i)
    /\ UNCHANGED <<boostables, waiter, shutdown, runVars, bst, tk, envVars, histVars>>

\* Top of "while True" in blocking_dequeue: with an empty buffer take the next
\* element of the underlying (next_underlying) and enqueue it.
IterLoop(i) ==
    /\ cur = ItProc(i) /\ itr[i].pc = "loop"
    /\ LET b == TopOf(i)
           new == Len(tk) + 1
       IN IF bst[b].buffer # <<>>
          THEN /\ itr' = [itr EXCEPT ![i].pc = "deq"]
               /\ UNCHANGED <<bst, tk>>
          ELSE IF bst[b].up = Eager
               THEN \* await self.iterable.__anext__()
                    /\ itr' = [itr EXCEPT ![i].pc = "anext", ![i].aw = 0]
                    /\ UNCHANGED <<bst, tk>>
               ELSE IF bst[b].up # 0
               THEN \* await self.iterable.blocking_dequeue()
                    /\ itr' = [itr EXCEPT ![i].stack = <<<<bst[b].up, 0>>>> \o @]
                    /\ UNCHANGED <<bst, tk>>
               ELSE IF SourceEnded(b)
                    THEN \* StopAsyncIteration leaves every frame
                         /\ itr' = [itr EXCEPT ![i].pc = "stop", ![i].stack = <<>>]
                         /\ UNCHANGED <<bst, tk>>
                    ELSE /\ tk' = Append(tk, NewTask(b, bst[b].pos + 1))
                         /\ bst' = [bst EXCEPT ![b].pos = @ + 1,
                                               ![b].buffer = BufferAdd(@, new)]
                         /\ itr' = [itr EXCEPT ![i].pc = "deq",
                                               ![i].stack[1] = <<b, HintFor(b, new)>>]
    /\ UNCHANGED <<execVars, runVars, envVars, cur, histVars>>

\* EagerAsyncIterator.__anext__, from its start or after an await: suspend
\* while the task it reads is not done; then take its value, which
\* blocking_dequeue enqueues, or leave with its StopAsyncIteration.
IterAnext(i) ==
    /\ cur = ItProc(i) /\ itr[i].pc = "anext"
    /\ LET b == TopOf(i)
           k == NextTaskRead(itr[i].aw)
           new == Len(tk) + 1
       IN IF ~EagerDone(k)
          THEN /\ itr' = [itr EXCEPT ![i].pc = "eawait", ![i].aw = k]
               /\ cur' = NoProc
               /\ UNCHANGED <<bst, tk, eager>>
          ELSE IF EagerEnd(k)
          THEN /\ itr' = [itr EXCEPT ![i] = Raised(i, "stop")]
               /\ UNCHANGED <<bst, tk, eager, cur>>
          ELSE /\ eager' = EagerTake(k)
               /\ tk' = Append(tk, NewTask(b, k))
               /\ bst' = [bst EXCEPT ![b].buffer = BufferAdd(@, new)]
               /\ itr' = [itr EXCEPT ![i].pc = "deq", ![i].aw = 0,
                                     ![i].stack[1] = <<b, HintFor(b, new)>>]
               /\ UNCHANGED cur
    /\ UNCHANGED <<execVars, runVars, concurrency, scn, fail, bpc, histVars>>

\* "await self.next_task" returns: the eagerify task that was awaited is done.
IterWakeEager(i) ==
    /\ cur = NoProc /\ itr[i].pc = "eawait"
    /\ EagerDone(itr[i].aw)
    /\ itr' = [itr EXCEPT ![i].pc = "anext"]
    /\ cur' = ItProc(i)
    /\ UNCHANGED <<execVars, runVars, bst, tk, envVars, histVars>>

\* self.dequeue(); if NotReady, suspend on the front task (ordered) or on a new
\* completion waiter (unordered).
IterDequeue(i) ==
    /\ cur = ItProc(i) /\ itr[i].pc = "deq"
    /\ LET b == TopOf(i)
       IN IF Dequeuable(b, HintOf(i)) # {}
          THEN \E t \in Dequeuable(b, HintOf(i)) :
               /\ bst' = [bst EXCEPT ![b].buffer = BufferRemove(@, t)]
               /\ itr' = IF tk[t].exc = "none"
                         THEN [itr EXCEPT ![i].pc = "ret", ![i].val = tk[t].res]
                         ELSE [itr EXCEPT ![i] = Raised(i, tk[t].exc)]
               /\ UNCHANGED cur
          ELSE IF bst[b].kind = "ordered"
               THEN /\ itr' = [itr EXCEPT ![i].pc = "await", ![i].aw = Head(bst[b].buffer)]
                    /\ cur' = NoProc
                    /\ UNCHANGED bst
               ELSE /\ bst' = [bst EXCEPT ![b].uw = -1]
                    /\ itr' = [itr EXCEPT ![i].pc = "uwait"]
                    /\ cur' = NoProc
    /\ UNCHANGED <<execVars, runVars, tk, envVars, histVars>>

\* blocking_dequeue returns: to the consumer (which asks for the next result at
\* once) or to the frame below, which enqueues the value as its next argument.
IterReturn(i) ==
    /\ cur = ItProc(i) /\ itr[i].pc = "ret"
    /\ IF Len(itr[i].stack) = 1
       THEN /\ itr' = [itr EXCEPT ![i].out = Append(@, itr[i].val),
                                  ![i].stack = <<<<i, 0>>>>,
                                  ![i].pc = "loop"]
            /\ UNCHANGED <<bst, tk>>
       ELSE LET b == itr[i].stack[2][1]
                new == Len(tk) + 1
            IN /\ tk' = Append(tk, NewTask(b, itr[i].val))
               /\ bst' = [bst EXCEPT ![b].buffer = BufferAdd(@, new)]
               /\ itr' = [itr EXCEPT ![i].stack = <<<<b, HintFor(b, new)>>>> \o Tail(Tail(@)),
                                     ![i].pc = "deq"]
    /\ UNCHANGED <<execVars, runVars, envVars, cur, histVars>>

\* "await self.buffer[0]" returns: the awaited task is done.
IterWakeTask(i) ==
    /\ cur = NoProc /\ itr[i].pc = "await"
    /\ tk[itr[i].aw].st = "done"
    /\ itr' = IF tk[itr[i].aw].exc = "none"
              THEN [itr EXCEPT ![i].pc = "loop"]
              ELSE [itr EXCEPT ![i] = Raised(i, tk[itr[i].aw].exc)]
    /\ cur' = ItProc(i)
    /\ UNCHANGED <<execVars, runVars, bst, tk, envVars, histVars>>

\* "task = await self.waiter; self.waiter = None"
IterWakeWaiter(i) ==
    /\ cur = NoProc /\ itr[i].pc = "uwait"
    /\ bst[TopOf(i)].uw > 0
    /\ itr' = [itr EXCEPT ![i].pc = "loop", ![i].stack[1] = <<TopOf(i), bst[TopOf(i)].uw>>]
    /\ bst' = [bst EXCEPT ![TopOf(i)].uw = 0]
    /\ cur' = ItProc(i)
    /\ UNCHANGED <<execVars, runVars, tk, envVars, histVars>>

\* A mutation of Reacquired: the iterator ends without taking a permit back.
NotReacquired(i) ==
    /\ sem' = sem
    /\ itr' = [itr EXCEPT ![i].pc = "done"]
    /\ cur' = OwnerProc(i)

\* The iterator has its permit back and ends.
Reacquired(i) ==
    /\ sem' = sem - 1
    /\ itr' = [itr EXCEPT ![i].pc = "done"]
    /\ cur' = OwnerProc(i)

\* except StopAsyncIteration: pass; finally: await self.semaphore.acquire()
IterStop(i) ==
    /\ cur = ItProc(i) /\ itr[i].pc = "stop"
    /\ IF Locked(sem)
       THEN /\ itr' = [itr EXCEPT ![i].pc = "acq"]
            /\ cur' = NoProc
            /\ UNCHANGED sem
       ELSE Reacquired(i)
    /\ UNCHANGED <<boostables, waiter, shutdown, runVars, bst, tk, envVars, histVars>>

\* The suspended final acquire() gets a permit.
IterAcquire(i) ==
    /\ cur = NoProc /\ itr[i].pc = "acq"
    /\ ~Locked(sem)
    /\ Reacquired(i)
    /\ UNCHANGED <<boostables, waiter, shutdown, runVars, bst, tk, envVars, histVars>>

(* ---- specifications ---- *)

TaskIds == 1..Len(tk)

BoostIds == 1..Len(bst)

BodyScopeNext == BodyEnter \/ BodyMap \/ BodyGather \/ BodyAexit

BodyNext == BodyScopeNext \/ BodyExit

RunnerLoopNext ==
    \/ RunnerStart \/ RunnerGate \/ RunnerInner \/ RunnerProvideBoost \/ RunnerResume
    \/ RunnerPost \/ RunnerWake

RunnerNext == RunnerLoopNext \/ RunnerDrain \/ RunnerFinal

TaskNext ==
    \/ \E t \in TaskIds : TaskStart(t)
    \/ \E t \in TaskIds : TaskAdmit(t)
    \/ \E t \in TaskIds : TaskFinish(t)

NestedTaskNext == \E t \in TaskIds : TaskReturn(t)

UnorderedNext ==
    \/ \E t \in TaskIds : DoneCallback(t)
    \/ \E i \in BoostIds : IterWakeWaiter(i)

IterNext ==
    \/ \E i \in BoostIds : IterStart(i)
    \/ \E i \in BoostIds : IterLoop(i)
    \/ \E i \in BoostIds : IterDequeue(i)
    \/ \E i \in BoostIds : IterReturn(i)
    \/ \E i \in BoostIds : IterWakeTask(i)
    \/ \E i \in BoostIds : IterStop(i)
    \/ \E i \in BoostIds : IterAcquire(i)

\* A single boostable over a synchronous source, or a chain of two boostables
\* whose first stage is ordered ("chain") or unordered ("uchain").
Scenarios == {"ordered", "unordered", "chain", "uchain"}

Init == InitFor(Scenarios)

Next == BodyNext \/ RunnerNext \/ RunnerDrained \/ TaskNext \/ IterNext \/ UnorderedNext

Spec == Init /\ [][Next]_vars

\* The event loop runs a ready callback whenever there is one.
FairSpec == Spec /\ WF_vars(Next)

\* Two boostables of one executor iterated at the same time.  Both are iterated
\* to their end, so no buffer holds a task when run() drains: wait() never
\* suspends and RunnerDrained has no state to fire in.
InitPair == InitFor({"pair"})

NextPair == BodyNext \/ RunnerNext \/ TaskNext \/ IterNext

SpecPair == InitPair /\ [][NextPair]_vars

\* A func that registers and iterates a boostable on the same executor.
InitNested == InitFor({"nested"})

NextNested == BodyNext \/ RunnerNext \/ TaskNext \/ IterNext \/ NestedTaskNext

SpecNested == InitNested /\ [][NextNested]_vars

\* The nested pipeline on an executor of concurrency 1.  With no background
\* permit run() is still in its loop when the outermost iteration has ended and
\* does not leave it afterwards, so the steps after the loop have no state to
\* fire in.  The event loop runs a ready callback whenever there is one.
InitNestedOne == InitNested /\ concurrency = 1

NextNestedOne == BodyScopeNext \/ RunnerLoopNext \/ TaskNext \/ IterNext \/ NestedTaskNext

FairNested == InitNestedOne /\ [][NextNestedOne]_vars /\ WF_vars(NextNestedOne)

\* A func that raises on one element of the first boostable, in a single ordered
\* boostable and in a chain of two; the body handles a consumer's exception or
\* lets it leave the scope.
ErrScenarios == {"ordered", "chain"}

InitErr == InitWith(ErrScenarios, TRUE)

BodyErrNext == BodyRaise \/ BodyAexitRaised

NextErr ==
    \/ BodyNext \/ BodyErrNext \/ RunnerNext \/ RunnerDrained \/ TaskNext \/ IterNext

SpecErr == InitErr /\ [][NextErr]_vars

\* A client that misuses the constructor or, after a normal iteration, a map call.
NextMisuse == BodyNext \/ BodyMisuse \/ BodyAexitRaised \/ RunnerNext \/ TaskNext \/ IterNext

SpecMisuse == InitMisuse /\ [][NextMisuse]_vars

\* One boostable over an EagerAsyncIterator, iterated by the body.
InitEager == InitFor({"eager"})

EagerNext == EagerStep \/ RunnerTimeout \/ \E i \in 1..Len(itr) : IterAnext(i) \/ IterWakeEager(i)

NextEager == BodyNext \/ RunnerNext \/ RunnerDrained \/ TaskNext \/ IterNext \/ EagerNext

SpecEager == InitEager /\ [][NextEager]_vars

\* A boostable over a synchronous source and one over an EagerAsyncIterator
\* on one executor; the body iterates the second.
InitMixed == InitFor({"mixed"})

SpecMixed == InitMixed /\ [][NextEager]_vars

\* The body registers a boostable over an EagerAsyncIterator, awaits, registers
\* a second boostable over a synchronous source, and leaves the scope without
\* iterating: every task is started by run().  The event loop runs every
\* callback that is ready, so no enabled step is postponed for ever.
InitLate == InitFor({"late"})

NextLate ==
    \/ BodyNext \/ BodyAwait \/ BodyLateMap
    \/ RunnerNext \/ RunnerDrained \/ RunnerTimeout \/ EagerStep
    \/ \E t \in TaskIds : TaskStart(t)
    \/ \E t \in TaskIds : TaskFinish(t)

FairLate == InitLate /\ [][NextLate]_vars /\ WF_vars(NextLate)

\* Several boostables over synchronous sources on one executor; the body
\* iterates the first of them.
InitRR == InitFor({"rr"})

NextRR == BodyNext \/ RunnerNext \/ RunnerDrained \/ TaskNext \/ IterNext

SpecRR == InitRR /\ [][NextRR]_vars

(* ---- the claims ---- *)

\* The tasks that have entered the semaphore-guarded wrapper and not left it.
InFlight == {t \in TaskIds : tk[t].st \in {"running", "iterating"}}

\* The results a boostable over the source 1..n yields, in source order.
Expected(fn, n) == [k \in 1..n |-> Func(fn, k)]

IsPrefix(s, t) == Len(s) <= Len(t) /\ \A k \in 1..Len(s) : s[k] = t[k]

IterDone(i) == Len(itr) >= i /\ itr[i].pc = "done"

\* C1: the number of tasks executing the mapping function, over all boostables
\* of the executor, never exceeds the concurrency, also when two boostables are
\* iterated at the same time.
C1_InFlightBounded == Cardinality(InFlight) <= concurrency

\* C2: a single ordered boostable over x0..xn yields exactly f(x0)..f(xn), in
\* this order: what has been yielded is always a prefix of it, and all of it
\* once the iteration has ended.
C2_OrderedYieldsSourceOrder ==
    (scn = "ordered" /\ Len(itr) >= 1) =>
        /\ IsPrefix(itr[1].out, Expected("double", SrcLen))
        /\ itr[1].pc = "done" => itr[1].out = Expected("double", SrcLen)

\* C2's case: the iteration has ended although the tasks did not complete in
\* source order.
C2_Witness ==
    /\ scn = "ordered" /\ IterDone(1)
    /\ Len(itr[1].out) = SrcLen
    /\ completed[1] # 1

\* C3: iterating stage2 = map_ordered(inc, map_ordered(double, src)) yields
\* inc(double(x)) for every x of src, in order, none lost.
C3_ChainYieldsAll ==
    (scn = "chain" /\ IterDone(2)) =>
        itr[2].out = [k \in 1..ChainLen |-> Func("inc", Func("double", k))]

\* The tasks of boostable b in the order in which they entered func.
StartedOf(b) == SelectSeq(started, LAMBDA t : tk[t].b = b)

\* C4: func is entered on the elements of the source in source order.
C4_StartsInSourceOrder ==
    \A b \in BoostIds :
        bst[b].up = 0 =>
            \A k \in 1..Len(StartedOf(b)) : tk[StartedOf(b)[k]].arg = k

\* No permit is free and none is held by anything that would release it.
NoPermitToCome ==
    /\ Locked(sem)
    /\ \A t \in TaskIds : tk[t].st = "done"
    /\ \A i \in BoostIds : itr[i].pc \in {"none", "done"}

\* C5: after a normal exit of the scope the scheduling loop is never left
\* blocked for good in the capacity gate, so __aexit__ returns.
C5_LoopLeavesGate == ~(shutdown /\ rpc = "gate" /\ cur = NoProc /\ NoPermitToCome)

\* C6: when __aexit__ has returned normally, every task a boostable spawned is
\* complete.
C6_TasksDoneAtExit == bpc = "exited" => \A t \in TaskIds : tk[t].st = "done"

\* C6's case: the scope has been left and a buffer still holds tasks, which
\* run() had to wait for.
C6_Witness == bpc = "exited" /\ \E b \in BoostIds : bst[b].buffer # <<>>

\* The upstream of boostable b has terminated: a synchronous source has been
\* taken to its end, an upstream boostable has also handed on all its results.
UpstreamTerminated(b) ==
    IF bst[b].up = 0
    THEN bst[b].pos = bst[b].len
    ELSE /\ bst[bst[b].up].pos = bst[bst[b].up].len
         /\ bst[bst[b].up].buffer = <<>>

\* The iterations the body started have all ended, each with its permit back.
AllIterated == Len(itr) = Len(Registrations(scn)) /\ \A i \in Iterated(scn) : IterDone(i)

C8_NestedCompletes ==
    /\ [](concurrency = 1 => (IterDone(1) \/ ENABLED NextNestedOne))
    /\ (concurrency = 1) ~> IterDone(1)

\* C8's case: at concurrency 1 the outermost iteration has ended after every
\* level of the pipeline was iterated.
C8_Witness ==
    /\ scn = "nested" /\ concurrency = 1 /\ IterDone(1)
    /\ Len(itr[1].out) = NestLen
    /\ \E b \in BoostIds : bst[b].level = NestDepth /\ IterDone(b)

\* What the unordered boostable 1 has emitted: to the consumer, or, as the first
\* stage of a chain, to the second stage as the arguments of its tasks.
Emitted ==
    IF scn = "unordered"
    THEN itr[1].out
    ELSE LET second == SelectSeq(tk, LAMBDA r : r.b = 2)
         IN [k \in 1..Len(second) |-> second[k].arg]

\* C9: an unordered boostable emits the result of every task exactly once: no
\* result twice, only results of its tasks, and each of them once the iteration
\* has ended.
C9_UnorderedEmitsEachOnce ==
    (scn \in {"unordered", "uchain"} /\ Len(itr) >= 1) =>
        LET n == bst[1].len
            all == {Func("double", k) : k \in 1..n}
        IN /\ \A j, k \in 1..Len(Emitted) : j # k => Emitted[j] # Emitted[k]
           /\ Range(Emitted) \subseteq all
           /\ AllIterated => Range(Emitted) = all

\* C9's case: a dequeue whose hinted task is done has returned another task, the
\* hinted one having been taken by the scheduling loop.
C9_Witness ==
    /\ scn = "uchain" /\ Len(itr) >= 2
    /\ itr[2].pc = "ret" /\ Len(itr[2].stack) = 2
    /\ HintOf(2) # 0 /\ tk[HintOf(2)].st = "done"
    /\ itr[2].val # tk[HintOf(2)].res

\* The results of the completed tasks, in the order of completion.
CompletedResults == [k \in 1..Len(completed) |-> tk[completed[k]].res]

\* C10: an unordered boostable emits results in completion order.
C10_EmitsInCompletionOrder ==
    (scn = "unordered" /\ Len(itr) >= 1) => IsPrefix(itr[1].out, CompletedResults)

\* C11: when func fails on element xi of an ordered boostable the consumer gets
\* the results of the elements before xi, in order, and then the failure: what
\* it has received is always a prefix of those results, and the iteration ends
\* with all of them and with the failure.
C11_FailureAtItsSlot ==
    (scn = "ordered" /\ Len(itr) >= 1) =>
        /\ IsPrefix(itr[1].out, Expected("double", fail.at - 1))
        /\ IterDone(1) => /\ itr[1].out = Expected("double", fail.at - 1)
                          /\ itr[1].err # "none"

\* C12: no failure of a func raises an exception inside run(), and a normal exit
\* of the scope does not raise one from the awaited runner.
C12_LoopSeesNoFailure == rpc # "crashed" /\ bpc # "exit_raised"

\* The tasks that have not completed.
Outstanding == {t \in TaskIds : tk[t].st # "done"}

\* C13: when the body raises, the step that follows is the return of __aexit__:
\* the runner is cancelled and not awaited, no task is waited for, and from then
\* on the scope has been left with the body's exception.
C13_RaisingBodyLeavesAtOnce ==
    [][bpc = "raising" =>
          /\ bpc' = "raised" /\ shutdown'
          /\ rpc' \in {"cancelled", "done", "crashed"}
          /\ tk' = tk]_vars

\* C13's case: the scope has been left with the body's exception, the runner
\* cancelled, while tasks are outstanding in a buffer.
C13_Witness ==
    /\ bpc = "raised" /\ rpc = "cancelled"
    /\ \E b \in BoostIds : Range(bst[b].buffer) \cap Outstanding # {}

\* C14: while every registered boostable answers each boost with a started task
\* (none has been found exhausted), any K consecutive boosts that run() hands
\* out go to K different boostables, K being the number registered: none gets
\* a second boost before each other one got its first, across capacity breaks.
C14_RoundRobin ==
    (scn = "rr" /\ exhausted = <<>>) =>
        \A i, j \in 1..Len(boosts) :
            (i < j /\ j - i < RRCount) => boosts[i] # boosts[j]

\* C14's case: every boostable got a boost, the loop came back from a capacity
\* break, and the first one got its second boost.
C14_Witness ==
    /\ scn = "rr" /\ exhausted = <<>>
    /\ Len(boosts) > RRCount
    /\ Range(boosts) = 1..RRCount

\* The elements the EagerAsyncIterator has delivered, to dequeue() and to
\* __anext__() alike, in the order of delivery: each became the argument of
\* the next task of the boostable above it.
EagerDelivered == [k \in 1..Len(tk) |-> tk[k].arg]

\* C15: the EagerAsyncIterator delivers the elements of its source in source
\* order, each exactly once, none skipped, whatever the interleaving of
\* dequeue() calls of run() and suspended __anext__() calls of the consumer;
\* when it has reported its end to the consumer, every element was delivered.
C15_EagerDeliversEachOnce ==
    scn = "eager" =>
        /\ EagerDelivered = [k \in 1..Len(tk) |-> k]
        /\ eager.next > 0 => eager.next = Len(tk) + 1
        /\ IterDone(1) => Len(tk) = EagerLen

\* C15's case: the consumer wakes in __anext__() from its await of a prefetch
\* that run() took with dequeue() in the meantime.
C15_Witness ==
    /\ scn = "eager" /\ Len(itr) >= 1
    /\ itr[1].pc = "anext"
    /\ itr[1].aw > 0 /\ itr[1].aw < eager.next

\* C16: BoostExecutor(C) with C < 1 is rejected at construction, and a
\* map_ordered call with an upstream of no valid kind raises at once, with
\* the active deque, the semaphore, the wake-up signal and the set of
\* boostables the same as before the call.
C16_MisuseRejected ==
    /\ [](concurrency < 1 => bpc = "rejected" /\ rpc = "none" /\ bst = <<>>)
    /\ [][(bpc = "gather" /\ bpc' \in {"raising", "misused"}) =>
             /\ bpc' = "raising"
             /\ UNCHANGED <<boostables, sem, waiter, bst>>]_vars

\* C16's case: the invalid map call was made while run() was idle on its
\* wake-up signal, and raised.
C16_Witness == scn = "misuse" /\ bpc = "raising" /\ waiter = "pending"

\* The permits of the semaphore: those free and those held by tasks inside
\* "async with semaphore".
TotalPermits == sem + Cardinality(InFlight)

\* C17: the permits of the capacity token, free or held by running tasks, are
\* never more than concurrency: an iteration started while another is in
\* progress adds none.
C17_PermitsBounded == TotalPermits <= concurrency

\* C18: a boostable that provide_boost reported Exhausted, and run() therefore
\* stopped boosting, has a terminated upstream: its synchronous source is at
\* its end, or its upstream boostable is at its end with an empty buffer.
C18_ExhaustedOnlyAtEnd == \A k \in 1..Len(exhausted) : UpstreamTerminated(exhausted[k])

\* C19: whenever run() is suspended or has not started, a registered
\* boostable is in the active deque exactly if run() has not seen it
\* Exhausted; one that answered NotReady is therefore in the deque.
C19_ActiveIffNotExhausted ==
    cur # RunnerProc =>
        \A b \in BoostIds : (b \in Range(boostables)) <=> (b \notin Range(exhausted))

\* C20: once run() is back from the sleep(0) that follows a boost which
\* started a task, and has rotated, the boostable at the back of the active
\* deque is the one that was offered that boost, whatever was registered
\* during the sleep.
C20_RotationMovesBoosted ==
    (rpc \in {"gate", "inner"} /\ task # 0) =>
        boostables # <<>> /\ boostables[Len(boostables)] = offered

\* C21: run() calls provide_boost only while a permit of the semaphore is
\* free: it comes to the call from the gate or from the check that the
\* semaphore is not locked, without a suspension in between.
C21_BoostOnlyWithPermit == rpc = "pb" => (cur = RunnerProc /\ ~Locked(sem))

\* C21's case: a boost has started a task, and run() is in a further
\* provide_boost call on the front boostable, after the gate or after the
\* check that followed the sleep(0).
C21_Witness == rpc = "pb" /\ task # 0 /\ offered = pbCur

\* C22: a boostable registered while run() is under way, wherever run()
\* stands then, is eventually offered a boost by run(), provided the executor
\* has a permit for run() (concurrency above 1 where nothing is iterated).
C22_RegistrationSeen ==
    \A b \in 1..Len(Registrations("late")) :
        <>(scn = "late" /\ concurrency > 1 /\ Len(bst) >= b) => <>(offered = b)

\* C22's case: the second boostable was registered while run() was idle on its
\* wake-up signal without a timeout, and the registration set the signal.
C22_Witness ==
    /\ scn = "late" /\ concurrency > 1 /\ Len(bst) = 2
    /\ rpc = "idle" /\ waiter = "set" /\ ~timed /\ ~shutdown

\* C23: an iteration gives one permit at its start and takes one back at its
\* end, be the end that of the source or a failure of func: once the
\* iterations of the body have ended and every task is done, the free permits
\* are the concurrency - 1 the executor was built with.
C23_IterationPermitNeutral ==
    (AllIterated /\ \A t \in TaskIds : tk[t].st = "done") =>
        sem = InitialPermits(concurrency)

\* C23's case: the iteration ended with the exception of func, every task is
\* done, and the permits are back at concurrency - 1.
C23_Witness ==
    /\ AllIterated /\ \A t \in TaskIds : tk[t].st = "done"
    /\ \E i \in Iterated(scn) : itr[i].err # "none"
    /\ sem = InitialPermits(concurrency)

\* The elements the eagerify tasks have pulled from the asynchronous source,
\* and those the EagerAsyncIterator has handed to a reader.
EagerPulled == IF eager.done > EagerLen THEN EagerLen ELSE eager.done

EagerHanded == IF eager.next > 0 THEN eager.next - 1 ELSE 0

\* C24: the EagerAsyncIterator is one element ahead at most: the elements it
\* has pulled from its source and not yet handed to a reader are never more
\* than one.
C24_OneAhead == EagerPulled - EagerHanded <= 1

\* min(MAX_TIMEOUT, 2 * t)
Doubled(t) == IF 2 * t < MaxTimeout THEN 2 * t ELSE MaxTimeout

\* C25: when a wait that was given a timeout (the deque held boostables that
\* were not ready) ends by the timeout and not by the signal, run() doubles
\* its timeout up to MAX_TIMEOUT; the timeout is always within
\* MIN_TIMEOUT..MAX_TIMEOUT.
C25_TimeoutDoubles ==
    /\ [](timeout \in MinTimeout..MaxTimeout)
    /\ [][(rpc = "idle" /\ timed /\ waiter = "pending" /\ rpc' # "idle") =>
             timeout' = Doubled(timeout)]_vars

\* How often the boostable b occurs in the sequence q.
Occurrences(q, b) == Cardinality({k \in 1..Len(q) : q[k] = b})

\* C26: whenever run() is suspended or about to call provide_boost, every
\* registered boostable is in exactly one of the active deque, not_ready and
\* exhausted, and is there once.
C26_InOneCollection ==
    (cur # RunnerProc \/ rpc = "pb") =>
        \A b \in BoostIds : Occurrences(boostables \o not_ready \o exhausted, b) = 1

\* C26's case: the first boostable answered NotReady and is parked, the
\* second, registered while run() was under way, got a boost and was rotated,
\* and run() is suspended at the gate after a capacity break.
C26_Witness ==
    /\ scn = "late" /\ rpc = "gate" /\ cur # RunnerProc
    /\ not_ready = <<1>> /\ boostables = <<2>>

\* run() has left its main loop by the break.
LeftMainLoop == rpc \in {"drain", "drainwait", "final", "done"}

\* C27: run() leaves its main loop by the break only with shutdown set, the
\* active deque and not_ready empty and a permit free, so that every
\* registered boostable is in exhausted, the list that is then drained.
C27_LeavesOnlyWhenAllExhausted ==
    /\ [](LeftMainLoop =>
             /\ shutdown
             /\ boostables = <<>> /\ not_ready = <<>>
             /\ Range(exhausted) = BoostIds)
    /\ [][(~LeftMainLoop /\ LeftMainLoop') => ~Locked(sem)]_vars

\* C27's case: run() has just left its main loop, after a boostable that had
\* answered NotReady was taken back into the deque and found exhausted.
C27_Witness ==
    /\ scn = "mixed" /\ rpc = "drain" /\ drainIdx = 1
    /\ Len(exhausted) = 2

====
